---- MODULE Spec2Model ----
(***************************************************************************)
(* Model of tools/update_conferences.py: the canonicalizer, the key        *)
(* builder, the catalog index, the merge policy and the resolution engine  *)
(* (merge_update), the final sort, the timezone conversion of the          *)
(* ccf-deadlines source and the driver (main).                             *)
(*                                                                         *)
(* Representation of the program's values:                                 *)
(*  - a conference name is the sequence of its space-separated pieces      *)
(*    ("Foo  2026" is <<"Foo", "", "2026">>: an empty piece is a second    *)
(*    blank); a name key is such a sequence too;                           *)
(*  - a subject label is [ccf |-> d, text |-> t]: the text t wrapped in d  *)
(*    nested "CCF <code> (" ... ")" forms;                                 *)
(*  - every other string is a TLA+ string, and a string function is given  *)
(*    on the sample strings by the value the code computes for them;       *)
(*  - an entry (a Python dict) is a function from its keys to its values;  *)
(*  - a list position is 1-based here and 0-based in the code; hit = 0     *)
(*    stands for hit = None;                                               *)
(*  - a timezone token is <<word>> or <<word, sign, n>>: "UTC+8" is        *)
(*    <<"UTC", "+", 8>>;                                                   *)
(*  - the outcome of a call that may raise is [raised |-> b, value |-> v]. *)
(***************************************************************************)
EXTENDS Integers, Sequences, FiniteSets, TLC

\* Bounds of the model: the length of the starting catalog and the number
\* of incoming records of one run.
MaxBase == 2
MaxNew == 2

\* baseline:    the list merge_update is called with (main's `existing`)
\* existing:    merge_update's local catalog
\* idx:         the catalog index, typed key -> position
\* new_entries: the incoming records consumed so far, in order
\* ne2:         the loop's normalized incoming record (<<>> before the loop)
\* hit:         the loop's matched position (0: None)
\* pc:         "start" on entry, "loop" from the first line of the for loop;
\*             in main, the statement main is at
\* args:        main's parsed command line
\* log:         the lines main and the sources have printed, one per source
\* out_file:    <<>> before write_json, then <<the list written>>
\* rc:          <<>> while main runs, then <<its return value>>
\* iso:         one call of _deadline_to_iso: its arguments and, once it
\*             has ended, its outcome
VARIABLES baseline, existing, idx, new_entries, ne2, hit, pc,
          args, log, out_file, rc, iso

vars == <<baseline, existing, idx, new_entries, ne2, hit, pc,
          args, log, out_file, rc, iso>>

\* What merge_update never touches.
mainvars == <<args, log, out_file, rc, iso>>

\* What main and its sources never touch inside merge_update.
loopvars == <<idx, ne2, hit>>

----------------------------------------------------------------------------
(* Strings *)

\* str.strip() on the sample strings.
StripStr(s) ==
  CASE s = "   " -> ""
    [] s = " Paris " -> "Paris"
    [] OTHER -> s

\* re.sub(r"\s+", " ", s) on the sample strings.
CollapseWs(s) ==
  CASE s = "Mar  01 2026" -> "Mar 01 2026"
    [] s = "   " -> " "
    [] OTHER -> s

\* str.lower() on the sample strings.
LowerStr(s) ==
  CASE s = "HTTP://A" -> "http://a"
    [] s = "Foo" -> "foo"
    [] s = "FOO" -> "foo"
    [] s = "Bar" -> "bar"
    [] s = "Cycle" -> "cycle"
    [] s = "Wireless & Communication" -> "wireless & communication"
    [] s = "Wireless/Communication" -> "wireless/communication"
    [] s = "Networking & Systems" -> "networking & systems"
    [] s = "Network System" -> "network system"
    [] s = "Uncategorized" -> "uncategorized"
    [] s = "AoE" -> "aoe"
    [] s = "UTC" -> "utc"
    [] s = "PST" -> "pst"
    [] OTHER -> s

\* str.upper() on the sample strings.
UpperStr(s) ==
  CASE s = "AoE" -> "AOE"
    [] s = "aoe" -> "AOE"
    [] s = "utc" -> "UTC"
    [] s = "tbd" -> "TBD"
    [] s = "soon" -> "SOON"
    [] OTHER -> s

_safe_str(s) == StripStr(s)

_norm_space(s) == StripStr(CollapseWs(_safe_str(s)))

----------------------------------------------------------------------------
(* Names and name keys *)

RECURSIVE SumLen(_)
\* The number of characters of a piece.
PieceLen(t) ==
  CASE t = "" -> 0
    [] t \in {"2", "!"} -> 1
    [] t \in {"Foo", "FOO", "Bar"} -> 3
    [] t \in {"2025", "2026"} -> 4
    [] t = "Cycle" -> 5

SumLen(n) == IF n = <<>> THEN 0 ELSE PieceLen(Head(n)) + SumLen(Tail(n))

\* len(name): the pieces and one blank between two neighbours.
NameLen(n) == IF n = <<>> THEN 0 ELSE SumLen(n) + (Len(n) - 1)

\* _norm_space on a name: runs of blanks collapse, the ends are stripped.
NormSpaceName(n) == SelectSeq(n, LAMBDA t : t # "")

RECURSIVE TrimLeft(_)
TrimLeft(n) == IF n # <<>> /\ Head(n) = "" THEN TrimLeft(Tail(n)) ELSE n

RECURSIVE TrimRight(_)
TrimRight(n) ==
  IF n # <<>> /\ n[Len(n)] = "" THEN TrimRight(SubSeq(n, 1, Len(n) - 1)) ELSE n

\* str.strip() on a sequence of pieces.
StripName(n) == TrimRight(TrimLeft(n))

\* re.sub(r"[^a-z0-9\- ]+", "", t) on a lower-cased piece.
StripChars(t) == IF t = "!" THEN "" ELSE t

\* _YEAR_RE matches a piece.
IsYear(t) == t \in {"2025", "2026"}

\* (?:\d+|spring|fall)\b matches a piece.
IsCycleArg(t) == t \in {"2", "spring", "fall"}

RECURSIVE RemoveCycle(_)
\* _CYCLE_RE.sub("", s): "cycle", blanks, and a number or season.
RemoveCycle(n) ==
  IF n = <<>> THEN <<>>
  ELSE IF LowerStr(Head(n)) = "cycle" /\ Len(n) >= 2 /\ IsCycleArg(n[2])
       THEN RemoveCycle(Tail(Tail(n)))
       ELSE <<Head(n)>> \o RemoveCycle(Tail(n))

\* The tail shared by both name keys: lower, collapse blanks, drop the
\* characters outside [a-z0-9- ], strip.
KeyTail(n) ==
  LET low == [i \in 1..Len(n) |-> LowerStr(n[i])]
      col == NormSpaceName(low)
  IN StripName([i \in 1..Len(col) |-> StripChars(col[i])])

_norm_key_exact(name) == KeyTail(name)

_norm_key_series(name) ==
  LET noYear == SelectSeq(name, LAMBDA t : ~IsYear(t))
  IN KeyTail(RemoveCycle(NormSpaceName(noYear)))

----------------------------------------------------------------------------
(* Subject labels *)

Lbl(d, t) == [ccf |-> d, text |-> t]

\* A label is the empty string.
IsEmptyLabel(l) == l.ccf = 0 /\ l.text = ""

\* _safe_str and _norm_space on a label: only the blanks at the ends and
\* the runs of blanks of an unwrapped text are at stake.
SafeStrLabel(l) == IF l.ccf = 0 THEN Lbl(0, _safe_str(l.text)) ELSE l

NormSpaceLabel(l) == IF l.ccf = 0 THEN Lbl(0, _norm_space(l.text)) ELSE l

\* re.match(r"^CCF\s+\w+\s*\((.+)\)$", s): the group is everything between
\* the first "(" and the last ")", the label with one wrapper less.
MatchWhole(s) == s.ccf >= 1 /\ (s.ccf >= 2 \/ s.text # "")

\* s begins with "CCF <code>" and re.search(r"\(([^()]+)\)\s*$", s) finds a
\* last group free of parentheses: with two wrappers or more left the
\* string ends in "))" and nothing is found.
MatchTrailing(s) == s.ccf = 1 /\ s.text # ""

\* Rules (2) and (3): the renamed labels.
RenameLabel(s) ==
  LET low == LowerStr(s.text)
      s2 == IF s.ccf = 0 /\ low \in {"wireless & communication",
                                     "wireless and communication"}
            THEN Lbl(0, "Wireless/Communication") ELSE s
      low2 == LowerStr(s2.text)
      s3 == IF s2.ccf = 0 /\ low2 \in {"networking & systems",
                                       "networking and systems",
                                       "networks and systems"}
            THEN Lbl(0, "Network System") ELSE s2
  IN IF s3.ccf = 0 /\ LowerStr(s3.text) = "network system"
     THEN Lbl(0, "Network System") ELSE s3

canonicalize_subject(label) ==
  LET s0 == NormSpaceLabel(label)
      s1 == IF MatchWhole(s0) THEN NormSpaceLabel(Lbl(s0.ccf - 1, s0.text))
            ELSE s0
      s2 == IF MatchTrailing(s1) THEN NormSpaceLabel(Lbl(0, s1.text)) ELSE s1
  IN RenameLabel(s2)

RECURSIVE DedupeFrom(_, _)
DedupeFrom(xs, out) ==
  IF xs = <<>> THEN out
  ELSE LET x == SafeStrLabel(Head(xs))
       IN IF IsEmptyLabel(x) \/ (\E i \in 1..Len(out) : out[i] = x)
          THEN DedupeFrom(Tail(xs), out)
          ELSE DedupeFrom(Tail(xs), Append(out, x))

\* A faulty _dedupe_list: the `seen` set is never consulted.
DedupeKeepAll(xs) ==
  LET ys == [i \in 1..Len(xs) |-> SafeStrLabel(xs[i])]
  IN SelectSeq(ys, LAMBDA x : ~IsEmptyLabel(x))

_dedupe_list(xs) == DedupeFrom(xs, <<>>)

\* The value of a 'sub' key: a string, a list of strings, or a value of
\* another type (items then holds its str() form).
SubStr(l) == [kind |-> "str", items |-> <<l>>]
SubList(ls) == [kind |-> "list", items |-> ls]
SubOther(l) == [kind |-> "other", items |-> <<l>>]
SubNone == [kind |-> "none", items |-> <<>>]

_ensure_list(x) ==
  IF x.kind = "none" THEN <<>>
  ELSE x.items

Uncategorized == <<Lbl(0, "Uncategorized")>>

\* entry.get(k, d)
Get(entry, k, d) == IF k \in DOMAIN entry THEN entry[k] ELSE d

\* The value normalize_entry_subjects stores in entry["sub"].
normalize_entry_subjects(entry) ==
  LET raw == Get(entry, "sub", SubStr(Lbl(0, "")))
      subs == IF raw.kind = "list"
              THEN [i \in 1..Len(raw.items) |-> canonicalize_subject(raw.items[i])]
              ELSE IF raw.kind = "str" /\ ~IsEmptyLabel(SafeStrLabel(raw.items[1]))
                   THEN <<canonicalize_subject(raw.items[1])>>
                   ELSE <<>>
      kept == _dedupe_list(SelectSeq(subs, LAMBDA s : ~IsEmptyLabel(s)))
  IN SubList(IF kept = <<>> THEN Uncategorized ELSE kept)

----------------------------------------------------------------------------
(* Dates *)

\* Lines 161-166 of _clean_deadline_human on the sample strings: the
\* strike markers, the parenthesised notes, one "in N days" phrase per
\* non-overlapping match, the clock times and the semicolons are removed.
StripAnnotations(s) ==
  CASE s = "in 1 in 2 days days" -> "in 1 days"
    [] s = "in 1 days" -> ""
    [] OTHER -> _norm_space(s)

\* Lines 169-175: the first format that parses, rendered as "%b %d %Y".
Reformat(s) ==
  CASE s = "2026-01-10" -> "Jan 10 2026"
    [] OTHER -> s

_clean_deadline_human(val) ==
  IF StripStr(val) = "" THEN "" ELSE Reformat(StripAnnotations(val))

----------------------------------------------------------------------------
(* Entries *)

DateKeys ==
  {"Start Date", "End Date", "Abstract Deadline", "Submission Deadline",
   "Notification"}

\* The list `updatable` of merge_entries.
Updatable == {"Location"} \cup DateKeys

\* The keys of the dict normalize_entry_fields builds.
OutKeys == {"name", "sub", "link"} \cup Updatable

normalize_entry_fields(entry) ==
  [k \in OutKeys |->
     CASE k = "name" -> NormSpaceName(Get(entry, "name", <<>>))
       [] k = "sub" -> normalize_entry_subjects(entry)
       [] k = "Location" -> _norm_space(Get(entry, k, ""))
       [] k = "link" -> _norm_space(Get(entry, k, ""))
       [] OTHER -> _clean_deadline_human(_norm_space(Get(entry, k, "")))]

\* A faulty name rule: ">=" for ">".
MergedName_LongerOrEqual(old, new) ==
  IF new["name"] # <<>> /\ NameLen(new["name"]) >= NameLen(old["name"])
  THEN new["name"] ELSE old["name"]

\* name: prefer longer
MergedName(old, new) ==
  IF new["name"] # <<>> /\ NameLen(new["name"]) > NameLen(old["name"])
  THEN new["name"] ELSE old["name"]

\* A faulty link rule: the incoming link is taken whenever it is non-empty.
MergedLink_PreferNew(old, new) ==
  IF new["link"] # "" THEN new["link"] ELSE old["link"]

\* link: update if old empty
MergedLink(old, new) ==
  IF old["link"] = "" /\ new["link"] # "" THEN new["link"] ELSE old["link"]

\* fields that should be refreshed if new provides data
MergedField(old, new, k) ==
  LET nv == Get(new, k, "")
  IN IF nv # "" THEN nv ELSE old[k]

\* subjects: union
MergedSubs(old, new) ==
  LET both == _ensure_list(Get(old, "sub", SubNone))
                \o _ensure_list(Get(new, "sub", SubNone))
      subs == _dedupe_list([i \in 1..Len(both) |-> canonicalize_subject(both[i])])
  IN SubList(IF subs = <<>> THEN Uncategorized ELSE subs)

merge_entries(old0, new0) ==
  LET old == normalize_entry_fields(old0)
      new == normalize_entry_fields(new0)
  IN [k \in OutKeys |->
        CASE k = "name" -> MergedName(old, new)
          [] k = "link" -> MergedLink(old, new)
          [] k = "sub" -> MergedSubs(old, new)
          [] OTHER -> MergedField(old, new, k)]

\* (link_key, exact_name_key, series_key)
build_match_keys(entry) ==
  LET link == _safe_str(Get(entry, "link", ""))
  IN [link |-> IF link # "" THEN StripStr(LowerStr(link)) ELSE "",
      exact |-> _norm_key_exact(Get(entry, "name", <<>>)),
      series |-> _norm_key_series(Get(entry, "name", <<>>))]

----------------------------------------------------------------------------
(* The records the sources and the baseline file supply *)

E1 == ("name" :> <<"Foo", "2026">>)

E2 == ("name" :> <<"Foo", "Cycle", "2", "2026">>)
      @@ ("sub" :> SubStr(Lbl(0, "Networking & Systems")))
      @@ ("Location" :> " Paris ")
      @@ ("Submission Deadline" :> "2026-01-10")
      @@ ("link" :> "")

E3 == ("name" :> <<"FOO", "2025">>)
      @@ ("sub" :> SubStr(Lbl(1, "Network System")))
      @@ ("Submission Deadline" :> "Mar  01 2026")
      @@ ("Notification" :> "in 1 in 2 days days")
      @@ ("link" :> "http://a")

E4 == ("name" :> <<"Bar">>)
      @@ ("sub" :> SubList(<<Lbl(0, "Wireless & Communication"),
                             Lbl(0, "wireless and communication"),
                             Lbl(0, "")>>))
      @@ ("Start Date" :> "Jan 10 2026")
      @@ ("link" :> "HTTP://A")

E5 == ("name" :> <<"Bar">>)
      @@ ("sub" :> SubStr(Lbl(3, "Networking & Systems")))
      @@ ("End Date" :> "Jan 12 2026")
      @@ ("link" :> "http://b")
      @@ ("note" :> "keep")

E6 == ("name" :> <<"!">>)
      @@ ("sub" :> SubOther(Lbl(0, "7")))
      @@ ("Abstract Deadline" :> "TBD")
      @@ ("link" :> "   ")

E7 == ("name" :> <<"Foo", "", "2026">>)
      @@ ("sub" :> SubList(<<Lbl(0, "Network System")>>))
      @@ ("Location" :> "Oslo")
      @@ ("link" :> "http://b")

RawEntries == {E1, E2, E3, E4, E5, E6, E7}

\* The catalogs a run may start from.
BaseCatalogs == UNION {[1..n -> RawEntries] : n \in 0..MaxBase}

----------------------------------------------------------------------------
(* Catalog index *)

\* "L:" + key, "N:" + key, "S:" + key
LKey(k) == <<"L:", k>>
NKey(k) == <<"N:">> \o k
SKey(k) == <<"S:">> \o k

\* A faulty setdefault: d[k] = v, the last writer wins.
SetDefault_Overwrite(d, k, v) ==
  [x \in DOMAIN d \cup {k} |-> IF x = k THEN v ELSE d[x]]

\* dict.setdefault(k, v)
SetDefault(d, k, v) == IF k \in DOMAIN d THEN d ELSE d @@ (k :> v)

\* A faulty registration: the `if key:` guards are missing.
RegisterKeys_Unguarded(d, e, i) ==
  LET keys == build_match_keys(e)
  IN SetDefault(SetDefault(SetDefault(d, LKey(keys.link), i),
                           NKey(keys.exact), i),
                SKey(keys.series), i)

\* The three guarded setdefault calls for the entry at position i.
RegisterKeys(d, e, i) ==
  LET keys == build_match_keys(e)
      d1 == IF keys.link # "" THEN SetDefault(d, LKey(keys.link), i) ELSE d
      d2 == IF keys.exact # <<>> THEN SetDefault(d1, NKey(keys.exact), i) ELSE d1
  IN IF keys.series # <<>> THEN SetDefault(d2, SKey(keys.series), i) ELSE d2

RECURSIVE IndexFrom(_, _, _)
IndexFrom(cat, i, d) ==
  IF i > Len(cat) THEN d ELSE IndexFrom(cat, i + 1, RegisterKeys(d, cat[i], i))

EmptyIndex == [k \in {} |-> 0]

\* A faulty build_index: the enumeration starts one entry late.
build_index_SkipFirst(cat) == IndexFrom(cat, 2, EmptyIndex)

build_index(cat) == IndexFrom(cat, 1, EmptyIndex)

\* A faulty lookup: the exact name key is consulted before the link key.
Lookup_NameFirst(d, e) ==
  LET keys == build_match_keys(e)
  IN IF keys.exact # <<>> /\ NKey(keys.exact) \in DOMAIN d
     THEN d[NKey(keys.exact)]
     ELSE IF keys.link # "" /\ LKey(keys.link) \in DOMAIN d
          THEN d[LKey(keys.link)]
     ELSE IF keys.series # <<>> /\ SKey(keys.series) \in DOMAIN d
          THEN d[SKey(keys.series)]
     ELSE 0

\* The lookup of merge_update: link key, then exact name, then series;
\* 0 when nothing is found.
Lookup(d, e) ==
  LET keys == build_match_keys(e)
  IN IF keys.link # "" /\ LKey(keys.link) \in DOMAIN d THEN d[LKey(keys.link)]
     ELSE IF keys.exact # <<>> /\ NKey(keys.exact) \in DOMAIN d
          THEN d[NKey(keys.exact)]
     ELSE IF keys.series # <<>> /\ SKey(keys.series) \in DOMAIN d
          THEN d[SKey(keys.series)]
     ELSE 0

----------------------------------------------------------------------------
(* merge_update *)

\* No call of _deadline_to_iso is under way.
IsoIdle == iso = [deadline |-> "", tz |-> <<"">>, out |-> <<>>]

\* The command line without options: the defaults of parse_args.
DefaultArgs == [disable_ccfddl |-> FALSE, year_from |-> 2026, year_to |-> 2028]

\* main is not running: merge_update is called on its own.
MainIdle ==
  /\ args = DefaultArgs
  /\ log = <<>>
  /\ out_file = <<>>
  /\ rc = <<>>
  /\ IsoIdle

Init ==
  /\ MainIdle
  /\ baseline \in BaseCatalogs
  /\ existing = baseline
  /\ idx = EmptyIndex
  /\ new_entries = <<>>
  /\ ne2 = <<>>
  /\ hit = 0
  /\ pc = "start"

\* existing = [normalize_entry_fields(e) for e in existing]; build_index
NormalizeAll(cat) == [i \in 1..Len(cat) |-> normalize_entry_fields(cat[i])]

Start ==
  /\ pc = "start"
  /\ existing' = NormalizeAll(existing)
  /\ idx' = build_index(existing')
  /\ pc' = "loop"
  /\ UNCHANGED <<baseline, new_entries, ne2, hit>>
  /\ UNCHANGED mainvars

\* A faulty no-match branch: insert(0, ne2) for append(ne2).
AppendNew_Front(cat, e) == <<e>> \o cat

\* The catalog after the no-match branch.
AppendNew(cat, e) == Append(cat, e)

\* A faulty match branch: the slot is overwritten by the incoming record.
MergeInto_Overwrite(cat, h, e) == [cat EXCEPT ![h] = e]

\* The catalog after the match branch.
MergeInto(cat, h, e) == [cat EXCEPT ![h] = merge_entries(cat[h], e)]

\* A faulty no-match branch: the new entry's keys are not registered.
IndexAfterAppend_None(d, e, new_i) == d

\* The index after the no-match branch.
IndexAfterAppend(d, e, new_i) == RegisterKeys(d, e, new_i)

\* The index after the match branch.
IndexAfterMerge(d, e, h) == d

\* One iteration of the loop over new_entries, no key of ne registered.
AppendEntry(ne) ==
  /\ pc = "loop"
  /\ Len(new_entries) < MaxNew
  /\ LET n == normalize_entry_fields(ne)
     IN /\ Lookup(idx, n) = 0
        /\ ne2' = n
        /\ hit' = 0
        /\ existing' = AppendNew(existing, n)
        /\ idx' = IndexAfterAppend(idx, n, Len(existing'))
  /\ new_entries' = Append(new_entries, ne)
  /\ UNCHANGED <<baseline, pc>>
  /\ UNCHANGED mainvars

\* One iteration of the loop over new_entries, a key of ne registered.
MergeEntry(ne) ==
  /\ pc = "loop"
  /\ Len(new_entries) < MaxNew
  /\ LET n == normalize_entry_fields(ne)
         h == Lookup(idx, n)
     IN /\ h # 0
        /\ ne2' = n
        /\ hit' = h
        /\ existing' = MergeInto(existing, h, n)
        /\ idx' = IndexAfterMerge(idx, existing'[h], h)
  /\ new_entries' = Append(new_entries, ne)
  /\ UNCHANGED <<baseline, pc>>
  /\ UNCHANGED mainvars

Next ==
  \/ Start
  \/ \E ne \in RawEntries : AppendEntry(ne)
  \/ \E ne \in RawEntries : MergeEntry(ne)

Spec == Init /\ [][Next]_vars

RECURSIVE MergeLoop(_, _, _, _)
\* The for loop of merge_update from the k-th incoming record on.
MergeLoop(cat, d, entries, k) ==
  IF k > Len(entries) THEN cat
  ELSE LET n == normalize_entry_fields(entries[k])
           h == Lookup(d, n)
       IN IF h = 0
          THEN MergeLoop(AppendNew(cat, n),
                         IndexAfterAppend(d, n, Len(cat) + 1), entries, k + 1)
          ELSE LET cat2 == MergeInto(cat, h, n)
               IN MergeLoop(cat2, IndexAfterMerge(d, cat2[h], h), entries, k + 1)

\* merge_update as a function of its two arguments.
merge_update(existing0, entries) ==
  LET cat == NormalizeAll(existing0)
  IN MergeLoop(cat, build_index(cat), entries, 1)

----------------------------------------------------------------------------
(* Timezones of the ccf-deadlines source *)

\* The largest number the two digits of "UTC+N" can spell.
MaxTzN == 99

\* The deadline strings and the timezone tokens of the sample timelines.
Deadlines == {"", "TBD", "2026-01-10 23:59:59", "soon"}

TzTokens ==
  {<<"">>, <<"AoE">>, <<"aoe">>, <<"UTC">>, <<"utc">>, <<"PST">>}
    \cup {<<w, sg, n>> : w \in {"UTC", "utc"}, sg \in {"+", "-"}, n \in 0..MaxTzN}

Returned(v) == [raised |-> FALSE, value |-> v]

Raised == [raised |-> TRUE, value |-> ""]

\* timezone(timedelta(hours=h)): datetime.timezone takes an offset strictly
\* between -24 and 24 hours and raises ValueError for any other.
Timezone(h) ==
  IF -24 < h /\ h < 24 THEN Returned(h) ELSE [raised |-> TRUE, value |-> 0]

\* The value is the offset in hours.  The regular expression takes one or
\* two digits after the sign.
_tz_to_offset(tz) ==
  LET word == _safe_str(tz[1])
  IN IF Len(tz) = 1 /\ word = "" THEN Returned(0)
     ELSE IF Len(tz) = 1 /\ LowerStr(word) = "aoe" THEN Timezone(0 - 12)
     ELSE IF Len(tz) = 1 /\ UpperStr(word) = "UTC" THEN Returned(0)
     ELSE IF Len(tz) = 3 /\ UpperStr(word) = "UTC" /\ tz[3] < 100
          THEN Timezone((IF tz[2] = "+" THEN 1 ELSE 0 - 1) * tz[3])
     ELSE Returned(0)

\* datetime.strptime(ds, "%Y-%m-%d %H:%M:%S") succeeds.
IsDateTime(ds) == ds = "2026-01-10 23:59:59"

Digit(n) ==
  CASE n = 0 -> "0" [] n = 1 -> "1" [] n = 2 -> "2" [] n = 3 -> "3"
    [] n = 4 -> "4" [] n = 5 -> "5" [] n = 6 -> "6" [] n = 7 -> "7"
    [] n = 8 -> "8" [] n = 9 -> "9"

\* The "+HH:MM" suffix isoformat() writes for an offset of h hours.
UtcOffsetStr(h) ==
  LET a == IF h < 0 THEN 0 - h ELSE h
  IN (IF h < 0 THEN "-" ELSE "+") \o Digit(a \div 10) \o Digit(a % 10) \o ":00"

\* dt.replace(tzinfo=tz).isoformat() of the sample date and time.
IsoFormat(ds, h) ==
  (CASE ds = "2026-01-10 23:59:59" -> "2026-01-10T23:59:59") \o UtcOffsetStr(h)

\* The timezone is built before the try statement: what it raises leaves
\* _deadline_to_iso.
_deadline_to_iso(deadline, tz_str) ==
  LET ds == _safe_str(deadline)
  IN IF ds = "" \/ UpperStr(ds) = "TBD" THEN Returned("")
     ELSE LET tz == _tz_to_offset(tz_str)
          IN IF tz.raised THEN Raised
             ELSE IF IsDateTime(ds) THEN Returned(IsoFormat(ds, tz.value))
             ELSE Returned(ds)

\* One call of _deadline_to_iso on a sample deadline and timezone.
InitIso ==
  /\ baseline = <<>>
  /\ existing = <<>>
  /\ idx = EmptyIndex
  /\ new_entries = <<>>
  /\ ne2 = <<>>
  /\ hit = 0
  /\ pc = "iso"
  /\ args = DefaultArgs
  /\ log = <<>>
  /\ out_file = <<>>
  /\ rc = <<>>
  /\ iso \in [deadline : Deadlines, tz : TzTokens, out : {<<>>}]

CallIso ==
  /\ pc = "iso"
  /\ iso.out = <<>>
  /\ iso' = [iso EXCEPT !.out = <<_deadline_to_iso(iso.deadline, iso.tz)>>]
  /\ UNCHANGED <<baseline, existing, new_entries, pc, args, log, out_file, rc>>
  /\ UNCHANGED loopvars

SpecIso == InitIso /\ [][CallIso]_vars

----------------------------------------------------------------------------
(* The ccf-deadlines converter *)

\* CCF_SUB_LABEL.get(sub_code, sub_code), or "Uncategorized".
CcfLabel(sub_code) ==
  CASE sub_code = "" -> Uncategorized
    [] sub_code = "NW" -> Lbl(0, "Network System")
    [] OTHER -> Lbl(0, sub_code)

\* str(year) as the last piece of a name.
YearPiece(y) == CASE y = 2025 -> "2025" [] y = 2026 -> "2026"

\* A conference of the feed with one instance and one timeline item.
CcfConf(title, y, tz, d, url) ==
  [title |-> title, sub |-> "NW", year |-> y, place |-> "Oslo",
   timezone |-> tz, deadline |-> d, abstract_deadline |-> "", link |-> url]

CcfA == CcfConf(<<"Bar">>, 2026, <<"AoE">>, "2026-01-10 23:59:59", "")
CcfB == CcfConf(<<"Foo">>, 2026, <<"UTC", "+", 8>>, "soon", "http://a")
CcfC == CcfConf(<<"Foo">>, 2026, <<"UTC", "+", 24>>, "2026-01-10 23:59:59", "")
CcfD == CcfConf(<<"Foo">>, 2025, <<"UTC", "-", 99>>, "2026-01-10 23:59:59", "")

\* The entry of one timeline item.
CcfRow(conf, ddl, abs_ddl) ==
  ("name" :> StripName(conf.title \o <<YearPiece(conf.year)>>))
    @@ ("sub" :> SubList(<<canonicalize_subject(CcfLabel(_safe_str(conf.sub)))>>))
    @@ ("Location" :> _safe_str(conf.place))
    @@ ("Start Date" :> "")
    @@ ("End Date" :> "")
    @@ ("Abstract Deadline" :> abs_ddl)
    @@ ("Submission Deadline" :> ddl)
    @@ ("Notification" :> "")
    @@ ("link" :> _safe_str(conf.link))

RECURSIVE CcfFrom(_, _, _, _, _)
\* The loop of ccfddl_to_entries from the k-th conference on: an instance
\* outside the years is skipped before its deadlines are converted.
CcfFrom(confs, k, out, year_from, year_to) ==
  IF k > Len(confs) THEN Returned(out)
  ELSE LET conf == confs[k]
           ddl == _deadline_to_iso(_safe_str(conf.deadline), conf.timezone)
           abs_ddl == _deadline_to_iso(_safe_str(conf.abstract_deadline),
                                       conf.timezone)
       IN IF conf.year < year_from \/ conf.year > year_to
          THEN CcfFrom(confs, k + 1, out, year_from, year_to)
          ELSE IF ddl.raised \/ abs_ddl.raised
               THEN [raised |-> TRUE, value |-> <<>>]
          ELSE CcfFrom(confs, k + 1,
                       Append(out, CcfRow(conf, ddl.value, abs_ddl.value)),
                       year_from, year_to)

ccfddl_to_entries(ccf_confs, year_from, year_to) ==
  CcfFrom(ccf_confs, 1, <<>>, year_from, year_to)

----------------------------------------------------------------------------
(* The final sort *)

\* Bound of the model: the length of the lists sort_output is tried on.
MaxSort == 4

None == [ok |-> FALSE, ts |-> 0]

Some(t) == [ok |-> TRUE, ts |-> t]

\* The seconds since the epoch of a deadline, or None.  A string without
\* offset is read in the local zone, taken to be UTC here.
_ts(s0) ==
  LET s == _safe_str(s0)
      zones == {h \in (0 - 23)..23 : s = IsoFormat("2026-01-10 23:59:59", h)}
  IN IF s = "" THEN None
     ELSE IF zones # {}
          THEN Some(1768089599 - 3600 * (CHOOSE h \in zones : TRUE))
     ELSE IF s = "Jan 10 2026" THEN Some(1768003200)
     ELSE IF s = "Mar 01 2026" THEN Some(1772323200)
     ELSE None

\* str.lower() of a name.
LowerName(n) == [i \in 1..Len(n) |-> LowerStr(n[i])]

\* The place of a lower-cased piece among the sample pieces in the order
\* of Python strings.
PieceRank(p) ==
  CASE p = "!" -> 1 [] p = "2" -> 2 [] p = "2025" -> 3 [] p = "2026" -> 4
    [] p = "bar" -> 5 [] p = "cycle" -> 6 [] p = "foo" -> 7

RECURSIVE NameLess(_, _)
\* a < b for two names as Python strings: the blank between two pieces is
\* smaller than every character of a piece.
NameLess(a, b) ==
  IF b = <<>> THEN FALSE
  ELSE IF a = <<>> THEN TRUE
  ELSE IF PieceRank(Head(a)) # PieceRank(Head(b))
       THEN PieceRank(Head(a)) < PieceRank(Head(b))
  ELSE NameLess(Tail(a), Tail(b))

\* The key of an entry: (0, ts, name) or (1, 9e18, name).  The second
\* component of the unparseable entries is one constant, written 0 here.
_key(e) ==
  LET ts == _ts(_safe_str(Get(e, "Submission Deadline", "")))
      name == LowerName(StripName(Get(e, "name", <<>>)))
  IN IF ~ts.ok THEN [flag |-> 1, ts |-> 0, name |-> name]
     ELSE [flag |-> 0, ts |-> ts.ts, name |-> name]

\* The order of Python tuples.
KeyLess(a, b) ==
  \/ a.flag < b.flag
  \/ a.flag = b.flag /\ a.ts < b.ts
  \/ a.flag = b.flag /\ a.ts = b.ts /\ NameLess(a.name, b.name)

\* A faulty insertion: the entry goes before the entries of equal key.
InsertSorted_BeforeEqual(out, e) ==
  LET n == Cardinality({i \in 1..Len(out) : KeyLess(_key(out[i]), _key(e))})
  IN SubSeq(out, 1, n) \o <<e>> \o SubSeq(out, n + 1, Len(out))

\* sorted() is stable: an entry goes behind the entries of smaller or
\* equal key that precede it in the input.
InsertSorted(out, e) ==
  LET n == Cardinality({i \in 1..Len(out) : ~KeyLess(_key(e), _key(out[i]))})
  IN SubSeq(out, 1, n) \o <<e>> \o SubSeq(out, n + 1, Len(out))

RECURSIVE SortFrom(_, _, _)
SortFrom(entries, k, out) ==
  IF k > Len(entries) THEN out
  ELSE SortFrom(entries, k + 1, InsertSorted(out, entries[k]))

sort_output(entries) == SortFrom(entries, 1, <<>>)

----------------------------------------------------------------------------
(* main *)

\* The contents of the input file, and what the sources may return.
FileCatalogs == {<<>>, <<E4, E5>>, <<E3, E2>>}

CsaFeeds == {<<E1>>, <<E3, E6>>}

EasyChairFeeds == {<<E7>>, <<E2, E4>>}

EdasFeeds == {<<E5>>}

CcfFeeds == {<<CcfA>>, <<CcfB, CcfD>>, <<CcfA, CcfC>>}

\* The order of the sources in main.
SourceOrder == <<"CSALab", "EasyChair", "EDAS", "CCFDDL">>

\* The line a source ends with: "Rows: n", "Error: ...", "skipped" or
\* "Disabled by flag".
Line(src, ev, n) == [src |-> src, ev |-> ev, rows |-> n]

load_existing_json(data) == NormalizeAll(data)

\* A faulty collection: new_entries = rows for new_entries.extend(rows).
Extend_Replace(entries, rows) == rows

\* new_entries.extend(rows)
Extend(entries, rows) == entries \o rows

InitMain ==
  /\ baseline \in FileCatalogs
  /\ existing = <<>>
  /\ idx = EmptyIndex
  /\ new_entries = <<>>
  /\ ne2 = <<>>
  /\ hit = 0
  /\ pc = "load"
  /\ args \in [disable_ccfddl : BOOLEAN, year_from : {2026}, year_to : {2028}]
  /\ log = <<>>
  /\ out_file = <<>>
  /\ rc = <<>>
  /\ IsoIdle

LoadExisting ==
  /\ pc = "load"
  /\ existing' = load_existing_json(baseline)
  /\ pc' = "csalab"
  /\ UNCHANGED <<baseline, new_entries, args, log, out_file, rc, iso>>
  /\ UNCHANGED loopvars

\* The except clause of a source: its line is printed, nothing is added.
Caught(src) ==
  /\ log' = Append(log, Line(src, "error", 0))
  /\ UNCHANGED new_entries

\* The source returned rows.
Extended(src, rows) ==
  /\ new_entries' = Extend(new_entries, rows)
  /\ log' = Append(log, Line(src, "rows", Len(rows)))

FetchCSALab ==
  /\ pc = "csalab"
  /\ \/ Caught("CSALab")
     \/ \E rows \in CsaFeeds : Extended("CSALab", rows)
  /\ pc' = "easychair"
  /\ UNCHANGED <<baseline, existing, args, out_file, rc, iso>>
  /\ UNCHANGED loopvars

FetchEasyChair ==
  /\ pc = "easychair"
  /\ \/ Caught("EasyChair")
     \/ \E rows \in EasyChairFeeds : Extended("EasyChair", rows)
  /\ pc' = "edas"
  /\ UNCHANGED <<baseline, existing, args, out_file, rc, iso>>
  /\ UNCHANGED loopvars

\* load_edas_watchlist or fetch_edas_watchlist raises, the watchlist is
\* empty or missing, or the pages are fetched.
FetchEDAS ==
  /\ pc = "edas"
  /\ \/ Caught("EDAS")
     \/ /\ log' = Append(log, Line("EDAS", "skipped", 0))
        /\ UNCHANGED new_entries
     \/ \E rows \in EdasFeeds : Extended("EDAS", rows)
  /\ pc' = "ccfddl"
  /\ UNCHANGED <<baseline, existing, args, out_file, rc, iso>>
  /\ UNCHANGED loopvars

\* The flag disables the source; else fetch_ccfddl_yamls raises, or
\* ccfddl_to_entries raises or returns its rows.
FetchCcfddl ==
  /\ pc = "ccfddl"
  /\ IF args.disable_ccfddl
     THEN /\ log' = Append(log, Line("CCFDDL", "disabled", 0))
          /\ UNCHANGED new_entries
     ELSE \/ Caught("CCFDDL")
          \/ \E ccf_yamls \in CcfFeeds :
               LET r == ccfddl_to_entries(ccf_yamls, args.year_from, args.year_to)
               IN IF r.raised THEN Caught("CCFDDL")
                  ELSE Extended("CCFDDL", r.value)
  /\ pc' = "merge"
  /\ UNCHANGED <<baseline, existing, args, out_file, rc, iso>>
  /\ UNCHANGED loopvars

\* normalized_new = [...]; merged = merge_update(existing, normalized_new)
MergeStep ==
  /\ pc = "merge"
  /\ existing' = merge_update(existing, NormalizeAll(new_entries))
  /\ pc' = "renormalize"
  /\ UNCHANGED <<baseline, new_entries, args, log, out_file, rc, iso>>
  /\ UNCHANGED loopvars

\* merged = [normalize_entry_fields(e) for e in merged]
Renormalize ==
  /\ pc = "renormalize"
  /\ existing' = NormalizeAll(existing)
  /\ pc' = "sort"
  /\ UNCHANGED <<baseline, new_entries, args, log, out_file, rc, iso>>
  /\ UNCHANGED loopvars

\* merged = sort_output(merged)
SortStep ==
  /\ pc = "sort"
  /\ existing' = sort_output(existing)
  /\ pc' = "write"
  /\ UNCHANGED <<baseline, new_entries, args, log, out_file, rc, iso>>
  /\ UNCHANGED loopvars

\* write_json(args.out_path, merged)
WriteStep ==
  /\ pc = "write"
  /\ out_file' = <<existing>>
  /\ pc' = "return"
  /\ UNCHANGED <<baseline, existing, new_entries, args, log, rc, iso>>
  /\ UNCHANGED loopvars

\* return 0
Return ==
  /\ pc = "return"
  /\ rc' = <<0>>
  /\ pc' = "done"
  /\ UNCHANGED <<baseline, existing, new_entries, args, log, out_file, iso>>
  /\ UNCHANGED loopvars

NextMain ==
  \/ LoadExisting
  \/ FetchCSALab
  \/ FetchEasyChair
  \/ FetchEDAS
  \/ FetchCcfddl
  \/ MergeStep
  \/ Renormalize
  \/ SortStep
  \/ WriteStep
  \/ Return

SpecMain == InitMain /\ [][NextMain]_vars

\* The entries sort_output is tried on: normalized sample records and rows
\* of the ccf-deadlines source.
E8 == ("name" :> <<"Bar">>) @@ ("Submission Deadline" :> "Jan 10 2026")

SortEntries ==
  {normalize_entry_fields(e) : e \in {E2, E3, E4, E5, E8}}
    \cup {normalize_entry_fields(r) :
            r \in {CcfRow(CcfA, "2026-01-10T23:59:59-12:00", ""),
                   CcfRow(CcfB, "soon", "")}}

\* main at its last statements, with any list as the merged catalog.
InitSort ==
  /\ baseline = <<>>
  /\ existing \in UNION {[1..n -> SortEntries] : n \in 0..MaxSort}
  /\ idx = EmptyIndex
  /\ new_entries = <<>>
  /\ ne2 = <<>>
  /\ hit = 0
  /\ pc = "sort"
  /\ MainIdle

NextSort ==
  \/ SortStep
  \/ WriteStep
  \/ Return

SpecSort == InitSort /\ [][NextSort]_vars

----------------------------------------------------------------------------
(* Properties *)

\* A step of the loop over new_entries.
LoopStep == pc = "loop" /\ new_entries' # new_entries

LinkKeyOf(e) == build_match_keys(e).link
ExactKeyOf(e) == build_match_keys(e).exact
SeriesKeyOf(e) == build_match_keys(e).series

\* C1: processing an incoming record leaves the catalog length unchanged
\* (a match: the matched slot is replaced by the merge result, every other
\* slot is untouched) or increases it by exactly one (no match: the record
\* is appended at the end, every earlier slot is untouched); the length
\* never decreases and no entry changes position.
C1_GrowOrRefine ==
  [][/\ Len(existing') >= Len(existing)
     /\ LoopStep =>
          \/ /\ hit' = 0
             /\ Len(existing') = Len(existing) + 1
             /\ existing'[Len(existing')] = ne2'
             /\ \A i \in 1..Len(existing) : existing'[i] = existing[i]
          \/ /\ hit' \in 1..Len(existing)
             /\ Len(existing') = Len(existing)
             /\ existing'[hit'] = merge_entries(existing[hit'], ne2')
             /\ \A i \in 1..Len(existing) : i # hit' => existing'[i] = existing[i]
    ]_vars

\* C1 witness: a run from a non-empty catalog in which a record was
\* appended and the last record was merged into a slot.
C1_Witness ==
  /\ pc = "loop"
  /\ Len(baseline) >= 1
  /\ Len(existing) > Len(baseline)
  /\ hit # 0

\* C2 (as claimed): in a merge, a field whose old value is non-empty and
\* whose incoming value is empty keeps the old value, and no field of a
\* catalog slot that is non-empty becomes empty.
C2_NoErasure ==
  [][LoopStep =>
       \A i \in 1..Len(existing) :
         /\ \A k \in Updatable \cup {"link"} :
              existing[i][k] # "" =>
                /\ existing'[i][k] # ""
                /\ (hit' = i /\ ne2'[k] = "") => existing'[i][k] = existing[i][k]
         /\ existing[i]["name"] # <<>> =>
              /\ existing'[i]["name"] # <<>>
              /\ (hit' = i /\ ne2'["name"] = <<>>) =>
                   existing'[i]["name"] = existing[i]["name"]
    ]_vars

\* The non-empty name keys of an entry.
NameKeysOf(e) == {ExactKeyOf(e), SeriesKeyOf(e)} \ {<<>>}

\* C3 (as claimed): every non-empty identity key of an entry of the
\* starting catalog is still an identity key of some catalog entry.
C3_KeysSurvive ==
  pc = "loop" =>
    \A i \in 1..Len(baseline) :
      /\ LinkKeyOf(baseline[i]) # "" =>
           \E j \in 1..Len(existing) : LinkKeyOf(existing[j]) = LinkKeyOf(baseline[i])
      /\ \A key \in NameKeysOf(baseline[i]) :
           \E j \in 1..Len(existing) : key \in NameKeysOf(existing[j])

\* C3 (amended): every entry of the starting catalog is still at its
\* position; its non-empty link_key is still the link_key of that
\* position; its name keys are those of that position unless a merge
\* replaced the name by a strictly longer one.
C3_LinkKeySurvives ==
  pc = "loop" =>
    \A i \in 1..Len(baseline) :
      /\ i <= Len(existing)
      /\ LinkKeyOf(baseline[i]) # "" =>
           LinkKeyOf(existing[i]) = LinkKeyOf(baseline[i])
      /\ \/ /\ ExactKeyOf(existing[i]) = ExactKeyOf(baseline[i])
            /\ SeriesKeyOf(existing[i]) = SeriesKeyOf(baseline[i])
         \/ NameLen(existing[i]["name"])
              > NameLen(NormSpaceName(baseline[i]["name"]))

\* C3 witness: an entry of the starting catalog with a link whose name, and
\* with it the exact name key, was replaced in a merge.
C3_Witness ==
  /\ pc = "loop"
  /\ \E i \in 1..Len(baseline) :
       /\ LinkKeyOf(baseline[i]) # ""
       /\ LinkKeyOf(existing[i]) = LinkKeyOf(baseline[i])
       /\ ExactKeyOf(existing[i]) # ExactKeyOf(baseline[i])

\* C4 (as claimed): a key of a starting entry outside the enumeration
\* (name, link, sub, Location, the five dates) is in the catalog entry with
\* the same value once a record has been merged into that entry.
C4_OtherKeysKept ==
  (pc = "loop" /\ hit # 0 /\ hit <= Len(baseline)) =>
    \A k \in (DOMAIN baseline[hit]) \ OutKeys :
      /\ k \in DOMAIN existing[hit]
      /\ existing[hit][k] = baseline[hit][k]

\* C5: the first registered key in the order link, exact name, series
\* decides the slot; a record none of whose keys is registered is appended.
C5_Priority ==
  [][LoopStep =>
       LET l == LinkKeyOf(ne2')
           n == ExactKeyOf(ne2')
           s == SeriesKeyOf(ne2')
           byLink == l # "" /\ LKey(l) \in DOMAIN idx
           byName == n # <<>> /\ NKey(n) \in DOMAIN idx
           bySeries == s # <<>> /\ SKey(s) \in DOMAIN idx
       IN /\ byLink => hit' = idx[LKey(l)]
          /\ (~byLink /\ byName) => hit' = idx[NKey(n)]
          /\ (~byLink /\ ~byName /\ bySeries) => hit' = idx[SKey(s)]
          /\ (~byLink /\ ~byName /\ ~bySeries) => hit' = 0
          /\ hit' # 0 => existing'[hit'] = merge_entries(existing[hit'], ne2')
    ]_vars

\* C5 witness: the last record was merged into the entry that holds its
\* link key while its exact name key is registered for another entry.
C5_Witness ==
  /\ pc = "loop"
  /\ hit # 0
  /\ LinkKeyOf(ne2) # ""
  /\ LKey(LinkKeyOf(ne2)) \in DOMAIN idx
  /\ idx[LKey(LinkKeyOf(ne2))] = hit
  /\ NKey(ExactKeyOf(ne2)) \in DOMAIN idx
  /\ idx[NKey(ExactKeyOf(ne2))] # hit
  /\ ExactKeyOf(existing[hit]) # ExactKeyOf(ne2)

\* The typed keys an entry would register.
TypedKeysOf(e) ==
  (IF LinkKeyOf(e) # "" THEN {LKey(LinkKeyOf(e))} ELSE {})
    \cup (IF ExactKeyOf(e) # <<>> THEN {NKey(ExactKeyOf(e))} ELSE {})
    \cup (IF SeriesKeyOf(e) # <<>> THEN {SKey(SeriesKeyOf(e))} ELSE {})

\* The first two incoming records have no link, share a non-empty series
\* key, and no entry of the starting catalog claims a key of either.
TwoOfOneSeries ==
  /\ pc = "loop"
  /\ Len(new_entries) = 2
  /\ LET a == normalize_entry_fields(new_entries[1])
         b == normalize_entry_fields(new_entries[2])
         claimed == UNION {TypedKeysOf(normalize_entry_fields(baseline[i])) :
                             i \in 1..Len(baseline)}
     IN /\ LinkKeyOf(a) = "" /\ LinkKeyOf(b) = ""
        /\ SeriesKeyOf(a) # <<>>
        /\ SeriesKeyOf(a) = SeriesKeyOf(b)
        /\ (TypedKeysOf(a) \cup TypedKeysOf(b)) \cap claimed = {}

\* C6: a record is appended only if none of its non-empty keys is
\* registered when it is processed (so each of its keys then maps to its
\* own new position); of two link-less records of one series that no
\* earlier entry claims, the first is appended and the second is merged
\* into the first's slot, so the catalog grows by exactly one.
C6_SecondJoinsFirst ==
  /\ (pc = "loop" /\ new_entries # <<>> /\ hit = 0) =>
       /\ existing[Len(existing)] = ne2
       /\ \A key \in TypedKeysOf(ne2) :
            key \in DOMAIN idx /\ idx[key] = Len(existing)
  /\ TwoOfOneSeries =>
       /\ Len(existing) = Len(baseline) + 1
       /\ hit = Len(baseline) + 1

\* C6 witness: two link-less records of one series with different names
\* have been processed and share one slot.
C6_Witness ==
  /\ TwoOfOneSeries
  /\ ExactKeyOf(new_entries[1]) # ExactKeyOf(new_entries[2])
  /\ hit = Len(existing)

\* C7 (as claimed): after a merge each updatable field holds the value the
\* incoming record supplied if that value is non-empty, and the value the
\* slot held before otherwise.
C7_LastSuppliedWins ==
  [][(LoopStep /\ hit' # 0) =>
       \A k \in Updatable :
         existing'[hit'][k] =
           IF ne2'[k] # "" THEN ne2'[k] ELSE existing[hit'][k]
    ]_vars

\* C8: a merge keeps the old name unless the incoming name is non-empty
\* and strictly longer, and then takes the incoming name; the length of a
\* slot's name never decreases.
C8_LongerNameWins ==
  [][LoopStep =>
       /\ \A i \in 1..Len(existing) :
            NameLen(existing'[i]["name"]) >= NameLen(existing[i]["name"])
       /\ hit' # 0 =>
            existing'[hit']["name"] =
              IF /\ ne2'["name"] # <<>>
                 /\ NameLen(ne2'["name"]) > NameLen(existing[hit']["name"])
              THEN ne2'["name"] ELSE existing[hit']["name"]
    ]_vars

\* C8 witness: the last record was merged into a slot whose name is a
\* different name of the same length, which the slot kept.
C8_Witness ==
  /\ pc = "loop"
  /\ hit # 0
  /\ ne2["name"] # existing[hit]["name"]
  /\ NameLen(ne2["name"]) = NameLen(existing[hit]["name"])

\* C9: a non-empty link of a catalog entry is never changed by a later
\* merge; an empty one is replaced by the incoming record's link.
C9_LinkKept ==
  [][LoopStep =>
       /\ \A i \in 1..Len(existing) :
            existing[i]["link"] # "" => existing'[i]["link"] = existing[i]["link"]
       /\ (hit' # 0 /\ existing[hit']["link"] = "") =>
            existing'[hit']["link"] = ne2'["link"]
    ]_vars

\* C9 witness: the last record, matched by a name key, carries another
\* non-empty link than the slot it was merged into.
C9_Witness ==
  /\ pc = "loop"
  /\ hit # 0
  /\ ne2["link"] # ""
  /\ existing[hit]["link"] # ""
  /\ LinkKeyOf(ne2) # LinkKeyOf(existing[hit])

\* A subject list is non-empty, holds no empty label and no label twice.
GoodSubjects(sub) ==
  /\ sub.kind = "list"
  /\ Len(sub.items) >= 1
  /\ \A i \in 1..Len(sub.items) : ~IsEmptyLabel(sub.items[i])
  /\ \A i, j \in 1..Len(sub.items) : sub.items[i] = sub.items[j] => i = j

\* C10: once the catalog is loaded, every catalog entry and every
\* normalized incoming record has a non-empty, duplicate-free subject list.
C10_SubjectsNonEmpty ==
  pc = "loop" =>
    /\ \A i \in 1..Len(existing) : GoodSubjects(existing[i]["sub"])
    /\ new_entries # <<>> => GoodSubjects(ne2["sub"])

\* C10 witness: a merge united two subject lists, and some entry got the
\* label "Uncategorized" for a 'sub' value that is no string and no list.
C10_Witness ==
  /\ pc = "loop"
  /\ hit # 0
  /\ Len(existing[hit]["sub"].items) >= 2
  /\ \E i \in 1..Len(new_entries) :
       /\ "sub" \in DOMAIN new_entries[i]
       /\ new_entries[i]["sub"].kind = "other"
       /\ normalize_entry_fields(new_entries[i])["sub"].items = Uncategorized

\* The raw subject labels of a record.
RawLabelsOf(e) ==
  IF "sub" \in DOMAIN e
  THEN {e["sub"].items[i] : i \in 1..Len(e["sub"].items)}
  ELSE {}

\* C11 (as claimed): canonicalizing twice equals canonicalizing once, for
\* every subject label of a record that merge_update has normalized.
C11_Idempotent ==
  \A i \in 1..Len(new_entries) :
    \A x \in RawLabelsOf(new_entries[i]) :
      canonicalize_subject(canonicalize_subject(x)) = canonicalize_subject(x)

\* C15 (as claimed): after a match the merged record's own non-empty keys
\* are registered in the index.
C15_MergedKeysRegistered ==
  (pc = "loop" /\ hit # 0) => TypedKeysOf(existing[hit]) \subseteq DOMAIN idx

\* C16: a typed key once mapped to a position stays mapped to it; after
\* the build phase a key of a baseline entry maps to the lowest position
\* of a baseline entry that has it.
C16_FirstWriterWins ==
  [][/\ \A k \in DOMAIN idx : k \in DOMAIN idx' /\ idx'[k] = idx[k]
     /\ pc = "start" =>
          \A i \in 1..Len(existing') :
            \A k \in TypedKeysOf(existing'[i]) :
              /\ k \in DOMAIN idx'
              /\ idx'[k] <= i
              /\ k \in TypedKeysOf(existing'[idx'[k]])
    ]_vars

\* C16 witness: two baseline entries have a key in common, which maps to
\* the first, and a record was merged and another appended since.
C16_Witness ==
  /\ pc = "loop"
  /\ Len(baseline) = 2
  /\ \E k \in TypedKeysOf(existing[1]) \cap TypedKeysOf(existing[2]) : idx[k] = 1
  /\ Len(new_entries) = 2
  /\ Len(existing) = 3

\* C17: the index never holds a bare "L:", "N:" or "S:" key, and a record
\* all of whose keys are empty is appended, never merged.
C17_EmptyKeysUnused ==
  /\ {LKey(""), NKey(<<>>), SKey(<<>>)} \cap DOMAIN idx = {}
  /\ (pc = "loop" /\ new_entries # <<>> /\ TypedKeysOf(ne2) = {}) =>
       /\ hit = 0
       /\ existing[Len(existing)] = ne2
  /\ pc = "loop" =>
       Len(existing) >= Len(baseline)
         + Cardinality({i \in 1..Len(new_entries) :
              TypedKeysOf(normalize_entry_fields(new_entries[i])) = {}})

\* C17 witness: two records without any key were processed and are two
\* catalog entries.
C17_Witness ==
  /\ pc = "loop"
  /\ Len(new_entries) = 2
  /\ \A i \in 1..2 : TypedKeysOf(normalize_entry_fields(new_entries[i])) = {}
  /\ Len(existing) = Len(baseline) + 2
  /\ existing[Len(existing)] = existing[Len(existing) - 1]

\* No two entries of a catalog share a non-empty link key.
LinksUnique(cat) ==
  \A i, j \in 1..Len(cat) :
    (i # j /\ LinkKeyOf(cat[i]) # "") => LinkKeyOf(cat[i]) # LinkKeyOf(cat[j])

\* C18 (as claimed): if no two entries of the starting catalog share a
\* non-empty link key, no two catalog entries do.
C18_LinksStayUnique ==
  (pc = "loop" /\ LinksUnique(baseline)) => LinksUnique(existing)

\* The typed keys of the entries of a catalog.
KeysOfCatalog(cat) == UNION {TypedKeysOf(cat[i]) : i \in 1..Len(cat)}

C14_NeverRaises ==
  iso.out # <<>> => ~iso.out[1].raised

\* The lower-cased names of two entries are equal.
SameName(x, y) ==
  LowerName(StripName(x["name"])) = LowerName(StripName(y["name"]))

\* x may stand before y: a parseable deadline before an unparseable one,
\* parseable ones by timestamp then lower-cased name, unparseable ones by
\* lower-cased name.
InOrder(x, y) ==
  LET tx == _ts(x["Submission Deadline"])
      ty == _ts(y["Submission Deadline"])
      nx == LowerName(StripName(x["name"]))
      ny == LowerName(StripName(y["name"]))
  IN IF tx.ok /\ ty.ok
     THEN tx.ts < ty.ts \/ (tx.ts = ty.ts /\ ~NameLess(ny, nx))
     ELSE IF tx.ok THEN TRUE
     ELSE IF ty.ok THEN FALSE
     ELSE ~NameLess(ny, nx)

\* Equal sort keys.
Tied(x, y) == InOrder(x, y) /\ InOrder(y, x)

\* out is input rearranged by some permutation that puts the entries in
\* order and keeps the input order of tied entries.
IsStableSortOf(input, out) ==
  /\ Len(out) = Len(input)
  /\ \E f \in Permutations(1..Len(input)) :
       /\ \A i \in 1..Len(out) : out[i] = input[f[i]]
       /\ \A i, j \in 1..Len(out) :
            i < j => /\ InOrder(out[i], out[j])
                     /\ Tied(out[i], out[j]) => f[i] < f[j]

\* C12: sort_output returns a permutation of its input with the parseable
\* Submission Deadlines first, by timestamp then lower-cased name, the
\* others behind them by lower-cased name, and tied entries in input order.
C12_StableSort ==
  [][pc = "sort" => IsStableSortOf(existing, existing')]_vars

\* C12 witness: a sorted list of two parseable entries of one timestamp
\* and different names, then two different unparseable entries of one
\* name.
C12_Witness ==
  /\ pc = "write"
  /\ Len(existing) = 4
  /\ _ts(existing[1]["Submission Deadline"]).ok
  /\ _ts(existing[2]["Submission Deadline"]) = _ts(existing[1]["Submission Deadline"])
  /\ ~SameName(existing[1], existing[2])
  /\ ~_ts(existing[3]["Submission Deadline"]).ok
  /\ ~_ts(existing[4]["Submission Deadline"]).ok
  /\ SameName(existing[3], existing[4])
  /\ existing[3] # existing[4]

\* The rows the printed lines account for.
RECURSIVE RowsLogged(_)
RowsLogged(lines) ==
  IF lines = <<>> THEN 0 ELSE Head(lines).rows + RowsLogged(Tail(lines))

\* C13: whichever sources fail, each failure is caught, the failed source
\* adds no record, every source is still reached in the fixed order (the
\* ccf-deadlines one unless disabled), and main merges, sorts, writes and
\* returns 0.
C13_FailuresCaught ==
  /\ \A i \in 1..Len(log) : log[i].src = SourceOrder[i]
  /\ \A i \in 1..Len(log) : log[i].ev # "rows" => log[i].rows = 0
  /\ Len(new_entries) = RowsLogged(log)
  /\ pc \in {"merge", "renormalize", "sort", "write", "return", "done"} =>
       /\ Len(log) = Len(SourceOrder)
       /\ log[1].ev \in {"rows", "error"}
       /\ log[2].ev \in {"rows", "error"}
       /\ log[3].ev \in {"rows", "error", "skipped"}
       /\ log[4].ev \in IF args.disable_ccfddl THEN {"disabled"}
                        ELSE {"rows", "error"}
  /\ pc = "done" =>
       /\ rc = <<0>>
       /\ out_file = <<existing>>
       /\ existing =
            sort_output(NormalizeAll(
              merge_update(load_existing_json(baseline),
                           NormalizeAll(new_entries))))

\* C13 witness: the first and the third source failed, the second and the
\* fourth delivered rows, and main wrote a catalog and returned 0.
C13_Witness ==
  /\ pc = "done"
  /\ log[1].ev = "error"
  /\ log[2].ev = "rows"
  /\ log[3].ev = "error"
  /\ log[4].ev = "rows" /\ log[4].rows > 0
  /\ Len(new_entries) = log[2].rows + log[4].rows
  /\ out_file # <<>> /\ out_file[1] # <<>>
  /\ rc = <<0>>

====
